---- MODULE Spec2Model ----
(***************************************************************************)
(* The id-match rule of eslint-plugin-canonical: one create() call per     *)
(* linted file returns a visitor map with a single Identifier listener.    *)
(* The host walks a parent-linked syntax tree and calls the listener for   *)
(* every node of kind Identifier; the listener classifies the node by its  *)
(* parent and reports names that fail the configured pattern, at most once *)
(* per source range.                                                       *)
(*                                                                         *)
(* A syntax tree is an arena: a sequence of node records, each with a      *)
(* "type", a "parent" index (0 at the root) and the child relations of its *)
(* kind as indices.  'f' in node  is  "f" \in DOMAIN node.                 *)
(***************************************************************************)
EXTENDS Integers, Sequences, FiniteSets, TLC

VARIABLES
    inputPattern,   \* first element of the options tuple, or NoPattern
    options,        \* second element of the options tuple (possibly without keys)
    tree,           \* the syntax tree handed to this traversal
    reportedNodes,  \* Set of stringified ranges (create() closure)
    diagnostics,    \* what context.report received, in order
    visited,        \* identifier-kind nodes the host has walked so far
    status          \* "running", or "failed" once the listener threw

vars == <<inputPattern, options, tree, reportedNodes, diagnostics, visited, status>>

----------------------------------------------------------------------------
(* Bounds *)

\* Source offsets at which the linted snippet may start (0 .. MaxOffset).
MaxOffset == 1

----------------------------------------------------------------------------
(* Names and patterns *)

\* Identifier spellings, as character sequences.
Foo == <<"f", "o", "o">>
Bad == <<"b", "_", "n">>
Obj == <<"o", "b", "j">>
Use == <<"u", "s", "e">>
Names == {Foo, Bad}

NoPattern == "undefined"
LowerPattern == "^[a-z]+$"
SnakePattern == "^[a-z]+_[a-z]+$"
InputPatterns == {NoPattern, LowerPattern, SnakePattern}

LowerCase == {"a", "b", "c", "d", "e", "f", "g", "h", "i", "j", "k", "l", "m",
              "n", "o", "p", "q", "r", "s", "t", "u", "v", "w", "x", "y", "z"}

\* const pattern = inputPattern ?? '^.+$'
pattern == IF inputPattern = NoPattern THEN "^.+$" ELSE inputPattern

\* regexp.test(name) for the compiled patterns of this model.  All are
\* anchored at both ends; the regexp has no g or y flag, so test keeps no state.
RegexpTest(p, name) ==
    CASE p = "^.+$" ->
            /\ Len(name) >= 1
            /\ \A k \in 1..Len(name) : name[k] \notin {"\n", "\r"}
      [] p = "^[a-z]+$" ->
            /\ Len(name) >= 1
            /\ \A k \in 1..Len(name) : name[k] \in LowerCase
      [] p = "^[a-z]+_[a-z]+$" ->
            \E u \in 2..(Len(name) - 1) :
                /\ name[u] = "_"
                /\ \A k \in (1..Len(name)) \ {u} : name[k] \in LowerCase

OptionNames == {"classFields", "ignoreDestructuring", "ignoreNamedImports",
                "onlyDeclarations", "properties"}

\* The options object: every key given, or no key at all (the [string] form).
OptionObjects == [OptionNames -> BOOLEAN] \cup [{} -> BOOLEAN]

\* Boolean(options?.key)
OptionFlag(key) == key \in DOMAIN options /\ options[key]

checkProperties == OptionFlag("properties")
checkClassFields == OptionFlag("classFields")
onlyDeclarations == OptionFlag("onlyDeclarations")
ignoreDestructuring == OptionFlag("ignoreDestructuring")
ignoreNamedImports == OptionFlag("ignoreNamedImports")

ALLOWED_PARENT_TYPES == {"CallExpression", "NewExpression"}
DECLARATION_TYPES == {"FunctionDeclaration", "VariableDeclarator"}
IMPORT_TYPES == {"ImportSpecifier", "ImportNamespaceSpecifier", "ImportDefaultSpecifier"}

----------------------------------------------------------------------------
(* Syntax trees *)

Has(n, f) == f \in DOMAIN n

Ident(p, nm, s, e) == [type |-> "Identifier", parent |-> p, name |-> nm, range |-> <<s, e>>]
PrivateIdent(p, nm, s, e) ==
    [type |-> "PrivateIdentifier", parent |-> p, name |-> nm, range |-> <<s, e>>]
Plain(ty, p) == [type |-> ty, parent |-> p]
Literal(p) == [type |-> "Literal", parent |-> p, value |-> 1]

\* const a = 1; use(b);
TreeDeclareUse(o, a, b) ==
    << Plain("Program", 0),
       Plain("VariableDeclaration", 1),
       [type |-> "VariableDeclarator", parent |-> 2, id |-> 4, init |-> 5],
       Ident(3, a, o + 6, o + 9),
       Literal(3),
       Plain("ExpressionStatement", 1),
       [type |-> "CallExpression", parent |-> 6, callee |-> 8],
       Ident(7, Use, o + 15, o + 18),
       Ident(7, b, o + 19, o + 22) >>

\* const a = b;
TreeDeclareInit(o, a, b) ==
    << Plain("Program", 0),
       Plain("VariableDeclaration", 1),
       [type |-> "VariableDeclarator", parent |-> 2, id |-> 4, init |-> 5],
       Ident(3, a, o + 6, o + 9),
       Ident(3, b, o + 12, o + 15) >>

\* function a(b) {}
TreeFunction(o, a, b) ==
    << Plain("Program", 0),
       [type |-> "FunctionDeclaration", parent |-> 1, id |-> 3],
       Ident(2, a, o + 9, o + 12),
       Ident(2, b, o + 13, o + 16) >>

\* a;
TreeReference(o, a) ==
    << Plain("Program", 0),
       Plain("ExpressionStatement", 1),
       Ident(2, a, o, o + 3) >>

\* new a(b);
TreeNew(o, a, b) ==
    << Plain("Program", 0),
       Plain("ExpressionStatement", 1),
       [type |-> "NewExpression", parent |-> 2, callee |-> 4],
       Ident(3, a, o + 4, o + 7),
       Ident(3, b, o + 8, o + 11) >>

\* a.b;
TreeMember(o, a, b) ==
    << Plain("Program", 0),
       Plain("ExpressionStatement", 1),
       [type |-> "MemberExpression", parent |-> 2, object |-> 4, property |-> 5],
       Ident(3, a, o, o + 3),
       Ident(3, b, o + 4, o + 7) >>

\* a.b = 1;
TreeMemberAssign(o, a, b) ==
    << Plain("Program", 0),
       Plain("ExpressionStatement", 1),
       [type |-> "AssignmentExpression", parent |-> 2, left |-> 4, right |-> 7],
       [type |-> "MemberExpression", parent |-> 3, object |-> 5, property |-> 6],
       Ident(4, a, o, o + 3),
       Ident(4, b, o + 4, o + 7),
       Literal(3) >>

\* a.b = obj.foo;
TreeMemberAssignMember(o, a, b) ==
    << Plain("Program", 0),
       Plain("ExpressionStatement", 1),
       [type |-> "AssignmentExpression", parent |-> 2, left |-> 4, right |-> 7],
       [type |-> "MemberExpression", parent |-> 3, object |-> 5, property |-> 6],
       Ident(4, a, o, o + 3),
       Ident(4, b, o + 4, o + 7),
       [type |-> "MemberExpression", parent |-> 3, object |-> 8, property |-> 9],
       Ident(7, Obj, o + 10, o + 13),
       Ident(7, Foo, o + 14, o + 17) >>

\* foo = a.b;
TreeAssignMember(o, a, b) ==
    << Plain("Program", 0),
       Plain("ExpressionStatement", 1),
       [type |-> "AssignmentExpression", parent |-> 2, left |-> 4, right |-> 5],
       Ident(3, Foo, o, o + 3),
       [type |-> "MemberExpression", parent |-> 3, object |-> 6, property |-> 7],
       Ident(5, a, o + 6, o + 9),
       Ident(5, b, o + 10, o + 13) >>

\* use(a.b);
TreeCallMember(o, a, b) ==
    << Plain("Program", 0),
       Plain("ExpressionStatement", 1),
       [type |-> "CallExpression", parent |-> 2, callee |-> 4],
       Ident(3, Use, o, o + 3),
       [type |-> "MemberExpression", parent |-> 3, object |-> 6, property |-> 7],
       Ident(5, a, o + 4, o + 7),
       Ident(5, b, o + 8, o + 11) >>

\* const { a } = obj;      key and value are two nodes of one range
TreeShorthand(o, a) ==
    << Plain("Program", 0),
       Plain("VariableDeclaration", 1),
       [type |-> "VariableDeclarator", parent |-> 2, id |-> 4, init |-> 8],
       Plain("ObjectPattern", 3),
       [type |-> "Property", parent |-> 4, key |-> 6, value |-> 7, shorthand |-> TRUE],
       Ident(5, a, o + 8, o + 11),
       Ident(5, a, o + 8, o + 11),
       Ident(3, Obj, o + 16, o + 19) >>

\* const { a = 1 } = obj;
TreeShorthandDefault(o, a) ==
    << Plain("Program", 0),
       Plain("VariableDeclaration", 1),
       [type |-> "VariableDeclarator", parent |-> 2, id |-> 4, init |-> 10],
       Plain("ObjectPattern", 3),
       [type |-> "Property", parent |-> 4, key |-> 6, value |-> 7, shorthand |-> TRUE],
       Ident(5, a, o + 8, o + 11),
       [type |-> "AssignmentPattern", parent |-> 5, left |-> 8, right |-> 9],
       Ident(7, a, o + 8, o + 11),
       Literal(7),
       Ident(3, Obj, o + 20, o + 23) >>

\* const { a: b } = obj;
TreeRename(o, a, b) ==
    << Plain("Program", 0),
       Plain("VariableDeclaration", 1),
       [type |-> "VariableDeclarator", parent |-> 2, id |-> 4, init |-> 8],
       Plain("ObjectPattern", 3),
       [type |-> "Property", parent |-> 4, key |-> 6, value |-> 7, shorthand |-> FALSE],
       Ident(5, a, o + 8, o + 11),
       Ident(5, b, o + 13, o + 16),
       Ident(3, Obj, o + 21, o + 24) >>

\* const { a: b = 1 } = obj;
TreeRenameDefault(o, a, b) ==
    << Plain("Program", 0),
       Plain("VariableDeclaration", 1),
       [type |-> "VariableDeclarator", parent |-> 2, id |-> 4, init |-> 10],
       Plain("ObjectPattern", 3),
       [type |-> "Property", parent |-> 4, key |-> 6, value |-> 7, shorthand |-> FALSE],
       Ident(5, a, o + 8, o + 11),
       [type |-> "AssignmentPattern", parent |-> 5, left |-> 8, right |-> 9],
       Ident(7, b, o + 13, o + 16),
       Literal(7),
       Ident(3, Obj, o + 25, o + 28) >>

\* foo = { a: b };
TreeObjectLiteral(o, a, b) ==
    << Plain("Program", 0),
       Plain("ExpressionStatement", 1),
       [type |-> "AssignmentExpression", parent |-> 2, left |-> 4, right |-> 5],
       Ident(3, Foo, o, o + 3),
       Plain("ObjectExpression", 3),
       [type |-> "Property", parent |-> 5, key |-> 7, value |-> 8, shorthand |-> FALSE],
       Ident(6, a, o + 8, o + 11),
       Ident(6, b, o + 13, o + 16) >>

\* import { a } from 'x';      imported and local are two nodes of one range
TreeImportNamed(o, a) ==
    << Plain("Program", 0),
       Plain("ImportDeclaration", 1),
       [type |-> "ImportSpecifier", parent |-> 2, imported |-> 4, local |-> 5],
       Ident(3, a, o + 9, o + 12),
       Ident(3, a, o + 9, o + 12) >>

\* import { a as b } from 'x';
TreeImportAs(o, a, b) ==
    << Plain("Program", 0),
       Plain("ImportDeclaration", 1),
       [type |-> "ImportSpecifier", parent |-> 2, imported |-> 4, local |-> 5],
       Ident(3, a, o + 9, o + 12),
       Ident(3, b, o + 16, o + 19) >>

\* import a from 'x';
TreeImportDefault(o, a) ==
    << Plain("Program", 0),
       Plain("ImportDeclaration", 1),
       [type |-> "ImportDefaultSpecifier", parent |-> 2, local |-> 4],
       Ident(3, a, o + 7, o + 10) >>

\* import * as a from 'x';
TreeImportNamespace(o, a) ==
    << Plain("Program", 0),
       Plain("ImportDeclaration", 1),
       [type |-> "ImportNamespaceSpecifier", parent |-> 2, local |-> 4],
       Ident(3, a, o + 12, o + 15) >>

\* class foo { a = 1 }
TreeClassField(o, a) ==
    << Plain("Program", 0),
       [type |-> "ClassDeclaration", parent |-> 1, id |-> 3],
       Ident(2, Foo, o + 6, o + 9),
       Plain("ClassBody", 2),
       [type |-> "PropertyDefinition", parent |-> 4, key |-> 6, value |-> 7],
       Ident(5, a, o + 12, o + 15),
       Literal(5) >>

\* class foo { #a = 1 }      the key is a PrivateIdentifier named a
TreePrivateField(o, a) ==
    << Plain("Program", 0),
       [type |-> "ClassDeclaration", parent |-> 1, id |-> 3],
       Ident(2, Foo, o + 6, o + 9),
       Plain("ClassBody", 2),
       [type |-> "PropertyDefinition", parent |-> 4, key |-> 6, value |-> 7],
       PrivateIdent(5, a, o + 12, o + 16),
       Literal(5) >>

\* function foo(a = b) {}
TreeParamDefault(o, a, b) ==
    << Plain("Program", 0),
       [type |-> "FunctionDeclaration", parent |-> 1, id |-> 3],
       Ident(2, Foo, o + 9, o + 12),
       [type |-> "AssignmentPattern", parent |-> 2, left |-> 5, right |-> 6],
       Ident(4, a, o + 13, o + 16),
       Ident(4, b, o + 19, o + 22) >>

\* A tree no parser produces but the node types allow: a default-value
\* pattern placed directly inside an object pattern (it has no key).
TreeKeylessEntry(o, a) ==
    << Plain("Program", 0),
       Plain("VariableDeclaration", 1),
       [type |-> "VariableDeclarator", parent |-> 2, id |-> 4, init |-> 8],
       Plain("ObjectPattern", 3),
       [type |-> "AssignmentPattern", parent |-> 4, left |-> 6, right |-> 7],
       Ident(5, a, o + 8, o + 11),
       Literal(5),
       Ident(3, Obj, o + 20, o + 23) >>

Offsets == 0..MaxOffset

Trees ==
    UNION { { TreeReference(o, a), TreeShorthand(o, a), TreeShorthandDefault(o, a),
              TreeImportNamed(o, a), TreeImportDefault(o, a), TreeImportNamespace(o, a),
              TreeClassField(o, a), TreePrivateField(o, a), TreeKeylessEntry(o, a) }
            : o \in Offsets, a \in Names }
    \cup
    UNION { { TreeDeclareUse(o, a, b), TreeDeclareInit(o, a, b), TreeFunction(o, a, b),
              TreeNew(o, a, b), TreeMember(o, a, b), TreeMemberAssign(o, a, b),
              TreeMemberAssignMember(o, a, b),
              TreeAssignMember(o, a, b), TreeCallMember(o, a, b), TreeRename(o, a, b),
              TreeRenameDefault(o, a, b), TreeObjectLiteral(o, a, b),
              TreeImportAs(o, a, b), TreeParamDefault(o, a, b) }
            : o \in Offsets, a \in Names, b \in Names }

----------------------------------------------------------------------------
(* The closures of create() *)

Digit == <<"0", "1", "2", "3", "4", "5", "6", "7", "8", "9">>

\* Number.prototype.toString: the decimal digits of a non-negative integer.
RECURSIVE NumberToString(_)
NumberToString(n) ==
    IF n < 10 THEN <<Digit[n + 1]>>
    ELSE NumberToString(n \div 10) \o <<Digit[(n % 10) + 1]>>

\* node.range.toString(): Array.prototype.toString joins the elements with ",".
RangeToString(range) == NumberToString(range[1]) \o <<",">> \o NumberToString(range[2])

\* while (parent) { if (parent.type === 'ObjectPattern') return true; parent = parent.parent }
RECURSIVE ObjectPatternAbove(_)
ObjectPatternAbove(p) ==
    IF p = 0 THEN FALSE
    ELSE IF tree[p].type = "ObjectPattern" THEN TRUE
    ELSE ObjectPatternAbove(tree[p].parent)

isInsideObjectPattern(i) == ObjectPatternAbove(tree[i].parent)

\* Variant: the negation of the test is lost.
isInvalidInverted(name) == RegexpTest(pattern, name)

isInvalid(name) == ~RegexpTest(pattern, name)

\* Variant: the exemption of call and constructor arguments is lost.
shouldReportNoAllowedParents(effectiveParent, name) ==
    /\ (~onlyDeclarations \/ effectiveParent.type \in DECLARATION_TYPES)
    /\ isInvalid(name)

shouldReport(effectiveParent, name) ==
    /\ (~onlyDeclarations \/ effectiveParent.type \in DECLARATION_TYPES)
    /\ effectiveParent.type \notin ALLOWED_PARENT_TYPES
    /\ isInvalid(name)

\* The diagnostic context.report receives for node i.
Diagnostic(i) ==
    [ messageId |-> IF tree[i].type = "PrivateIdentifier" THEN "notMatchPrivate"
                    ELSE "notMatch",
      name |-> tree[i].name,
      pattern |-> pattern,
      node |-> i,
      range |-> tree[i].range ]

\* Variant: the Set is written but never consulted.
reportNoLookup(st, i) ==
    [ reported |-> st.reported \cup {RangeToString(tree[i].range)},
      sink |-> Append(st.sink, Diagnostic(i)) ]

\* report(node), as a step on the pair (reportedNodes, sink).
report(st, i) ==
    IF RangeToString(tree[i].range) \notin st.reported
    THEN [ reported |-> st.reported \cup {RangeToString(tree[i].range)},
           sink |-> Append(st.sink, Diagnostic(i)) ]
    ELSE st

\* The report calls of one listener run, applied in order.
RECURSIVE ReportAll(_, _)
ReportAll(st, calls) ==
    IF calls = <<>> THEN st
    ELSE ReportAll(report(st, Head(calls)), Tail(calls))

----------------------------------------------------------------------------
(* The Identifier listener.  Each branch yields the nodes it passes to     *)
(* report, in order, and how it ends: "done", "return" or "throw".         *)

Ends(calls, outcome) == [calls |-> calls, outcome |-> outcome]

\* Variant: member accesses are checked whatever the properties option says.
MemberExpressionBranchAlways(i) ==
    LET node == tree[i]
        name == node.name
        parent == tree[node.parent]
        effectiveParent == tree[parent.parent]
    IN  IF /\ tree[parent.object].type = "Identifier"
           /\ tree[parent.object].name = name
        THEN Ends(IF isInvalid(name) THEN <<i>> ELSE <<>>, "done")
        ELSE IF /\ effectiveParent.type = "AssignmentExpression"
                /\ tree[effectiveParent.left].type = "MemberExpression"
                /\ tree[tree[effectiveParent.left].property].type = "Identifier"
                /\ tree[tree[effectiveParent.left].property].name = node.name
        THEN Ends(IF isInvalid(name) THEN <<i>> ELSE <<>>, "done")
        ELSE Ends(<<>>, "done")

\* parent.type === MemberExpression
MemberExpressionBranch(i) ==
    LET node == tree[i]
        name == node.name
        parent == tree[node.parent]
        effectiveParent == tree[parent.parent]
    IN  IF ~checkProperties THEN Ends(<<>>, "return")
        ELSE IF /\ tree[parent.object].type = "Identifier"
                /\ tree[parent.object].name = name
        THEN Ends(IF isInvalid(name) THEN <<i>> ELSE <<>>, "done")
        ELSE IF /\ effectiveParent.type = "AssignmentExpression"
                /\ tree[effectiveParent.left].type = "MemberExpression"
                /\ tree[tree[effectiveParent.left].property].type = "Identifier"
                /\ tree[tree[effectiveParent.left].property].name = node.name
        THEN Ends(IF isInvalid(name) THEN <<i>> ELSE <<>>, "done")
        ELSE IF /\ effectiveParent.type = "AssignmentExpression"
                /\ tree[effectiveParent.right].type # "MemberExpression"
                /\ isInvalid(name)
        THEN Ends(<<i>>, "done")
        ELSE Ends(<<>>, "done")

\* Variant: the shorthand-with-default check forgets ignoreDestructuring.
ObjectPatternBlockDefaultAlways(i) ==
    LET node == tree[i]
        name == node.name
        parent == tree[node.parent]
        first == IF /\ Has(parent, "shorthand")
                    /\ parent.shorthand
                    /\ Has(tree[parent.value], "left")
                    /\ tree[parent.value].left # 0
                    /\ isInvalid(name)
                 THEN <<i>> ELSE <<>>
    IN  IF ~Has(parent, "key") THEN Ends(first, "throw")
        ELSE
        LET value == tree[parent.value]
            key == tree[parent.key]
            assignmentKeyEqualsValue ==
                /\ Has(value, "name")
                /\ Has(key, "name")
                /\ key.name = value.name
            valueIsInvalid ==
                /\ Has(value, "name")
                /\ value.name # <<>>
                /\ isInvalid(name)
        IN  IF ~assignmentKeyEqualsValue /\ parent.key = i THEN Ends(first, "return")
            ELSE IF valueIsInvalid /\ ~(assignmentKeyEqualsValue /\ ignoreDestructuring)
            THEN Ends(first \o <<i>>, "done")
            ELSE Ends(first, "done")

\* Variant: a pair without a key is skipped silently instead of throwing.
ObjectPatternBlockSkipKeyless(i) ==
    LET node == tree[i]
        name == node.name
        parent == tree[node.parent]
        first == IF /\ ~ignoreDestructuring
                    /\ Has(parent, "shorthand")
                    /\ parent.shorthand
                    /\ Has(tree[parent.value], "left")
                    /\ tree[parent.value].left # 0
                    /\ isInvalid(name)
                 THEN <<i>> ELSE <<>>
    IN  IF ~Has(parent, "key") THEN Ends(first, "return")
        ELSE
        LET value == tree[parent.value]
            key == tree[parent.key]
            assignmentKeyEqualsValue ==
                /\ Has(value, "name")
                /\ Has(key, "name")
                /\ key.name = value.name
            valueIsInvalid ==
                /\ Has(value, "name")
                /\ value.name # <<>>
                /\ isInvalid(name)
        IN  IF ~assignmentKeyEqualsValue /\ parent.key = i THEN Ends(first, "return")
            ELSE IF valueIsInvalid /\ ~(assignmentKeyEqualsValue /\ ignoreDestructuring)
            THEN Ends(first \o <<i>>, "done")
            ELSE Ends(first, "done")

\* if (parent.parent?.type === ObjectPattern) { ... }
ObjectPatternBlock(i) ==
    LET node == tree[i]
        name == node.name
        parent == tree[node.parent]
        first == IF /\ ~ignoreDestructuring
                    /\ Has(parent, "shorthand")
                    /\ parent.shorthand
                    /\ Has(tree[parent.value], "left")
                    /\ tree[parent.value].left # 0
                    /\ isInvalid(name)
                 THEN <<i>> ELSE <<>>
    IN  IF ~Has(parent, "key") THEN Ends(first, "throw")
        ELSE
        LET value == tree[parent.value]
            key == tree[parent.key]
            assignmentKeyEqualsValue ==
                /\ Has(value, "name")
                /\ Has(key, "name")
                /\ key.name = value.name
            valueIsInvalid ==
                /\ Has(value, "name")
                /\ value.name # <<>>
                /\ isInvalid(name)
        IN  IF ~assignmentKeyEqualsValue /\ parent.key = i THEN Ends(first, "return")
            ELSE IF valueIsInvalid /\ ~(assignmentKeyEqualsValue /\ ignoreDestructuring)
            THEN Ends(first \o <<i>>, "done")
            ELSE Ends(first, "done")

\* parent.type === Property || parent.type === AssignmentPattern
PropertyBranch(i) ==
    LET node == tree[i]
        name == node.name
        parent == tree[node.parent]
        block == IF parent.parent # 0 /\ tree[parent.parent].type = "ObjectPattern"
                 THEN ObjectPatternBlock(i)
                 ELSE Ends(<<>>, "done")
    IN  IF block.outcome # "done" THEN block
        ELSE IF ~checkProperties \/ (ignoreDestructuring /\ isInsideObjectPattern(i))
        THEN Ends(block.calls, "return")
        ELSE IF /\ (~Has(parent, "right") \/ parent.right # i)
                /\ shouldReport(parent, name)
        THEN Ends(block.calls \o <<i>>, "done")
        ELSE block

\* Variant: named specifiers are checked whatever ignoreNamedImports says.
ImportBranchNoIgnore(i) ==
    LET node == tree[i]
        name == node.name
        parent == tree[node.parent]
    IN  IF /\ Has(parent, "local")
           /\ tree[parent.local].name = node.name
           /\ isInvalid(name)
        THEN Ends(<<i>>, "done")
        ELSE Ends(<<>>, "done")

\* IMPORT_TYPES.has(parent.type)
ImportBranch(i) ==
    LET node == tree[i]
        name == node.name
        parent == tree[node.parent]
    IN  IF ignoreNamedImports /\ parent.type = "ImportSpecifier" THEN Ends(<<>>, "done")
        ELSE IF /\ Has(parent, "local")
                /\ tree[parent.local].name = node.name
                /\ isInvalid(name)
        THEN Ends(<<i>>, "done")
        ELSE Ends(<<>>, "done")

\* parent.type === PropertyDefinition
PropertyDefinitionBranch(i) ==
    IF checkClassFields /\ isInvalid(tree[i].name) THEN Ends(<<i>>, "done")
    ELSE Ends(<<>>, "done")

\* The last else: anything invalid that is not a call or constructor argument.
FallbackBranch(i, effectiveParent) ==
    IF shouldReport(effectiveParent, tree[i].name) THEN Ends(<<i>>, "done")
    ELSE Ends(<<>>, "done")

\* Identifier(node)
Identifier(i) ==
    LET node == tree[i]
    IN  IF node.parent = 0 THEN Ends(<<>>, "return")
        ELSE
        LET parent == tree[node.parent]
            effectiveParentIndex ==
                IF parent.type = "MemberExpression" THEN parent.parent ELSE node.parent
        IN  IF effectiveParentIndex = 0 THEN Ends(<<>>, "return")
            ELSE IF parent.type = "MemberExpression" THEN MemberExpressionBranch(i)
            ELSE IF parent.type \in {"Property", "AssignmentPattern"} THEN PropertyBranch(i)
            ELSE IF parent.type \in IMPORT_TYPES THEN ImportBranch(i)
            ELSE IF parent.type = "PropertyDefinition" THEN PropertyDefinitionBranch(i)
            ELSE FallbackBranch(i, tree[effectiveParentIndex])

\* The visitor map create() returns: node kinds that have a listener.
Listeners == {"Identifier"}

IdentifierKinds == {"Identifier", "PrivateIdentifier"}

----------------------------------------------------------------------------
(* Actions *)

Init ==
    /\ inputPattern \in InputPatterns
    /\ options \in OptionObjects
    /\ tree \in Trees
    /\ reportedNodes = {}
    /\ diagnostics = <<>>
    /\ visited = {}
    /\ status = "running"

\* The host lints the same file again with the same configuration: create()
\* runs again and its closure (the Set) and the sink start empty.
Create ==
    /\ reportedNodes' = {}
    /\ diagnostics' = <<>>
    /\ visited' = {}
    /\ status' = "running"
    /\ UNCHANGED <<inputPattern, options, tree>>

\* The host reaches Identifier node i and calls the listener.
VisitIdentifier(i) ==
    /\ status = "running"
    /\ i \notin visited
    /\ tree[i].type \in Listeners
    /\ LET run == Identifier(i)
           st == ReportAll([reported |-> reportedNodes, sink |-> diagnostics], run.calls)
       IN  /\ reportedNodes' = st.reported
           /\ diagnostics' = st.sink
           /\ status' = IF run.outcome = "throw" THEN "failed" ELSE "running"
    /\ visited' = visited \cup {i}
    /\ UNCHANGED <<inputPattern, options, tree>>

\* The host reaches an identifier-kind node whose kind has no listener.
VisitUnlistened(i) ==
    /\ status = "running"
    /\ i \notin visited
    /\ tree[i].type \in IdentifierKinds \ Listeners
    /\ visited' = visited \cup {i}
    /\ UNCHANGED <<inputPattern, options, tree, reportedNodes, diagnostics, status>>

Next ==
    \/ Create
    \/ \E i \in DOMAIN tree : VisitIdentifier(i)
    \/ \E i \in DOMAIN tree : VisitUnlistened(i)

Spec == Init /\ [][Next]_vars

----------------------------------------------------------------------------
(* Vocabulary of the properties *)

Nodes == DOMAIN tree
ParentOf(i) == tree[tree[i].parent]
HasParent(i) == tree[i].parent # 0
NameFails(i) == ~RegexpTest(pattern, tree[i].name)
Flagged(i) == \E k \in DOMAIN diagnostics : diagnostics[k].node = i
FlaggedRange(r) == \E k \in DOMAIN diagnostics : diagnostics[k].range = r
DiagnosticsAt(r) == {k \in DOMAIN diagnostics : diagnostics[k].range = r}
Walked(i) == i \in visited
\* Every identifier-kind node has been walked and the listener never threw.
TraversalDone ==
    /\ status = "running"
    /\ \A i \in Nodes : tree[i].type \in IdentifierKinds => Walked(i)
\* This step is the host walking node i.
Walks(i) == i \notin visited /\ visited' = visited \cup {i}

\* p is a shorthand entry of an object destructuring pattern.
ShorthandEntry(p) ==
    /\ tree[p].type = "Property"
    /\ tree[p].shorthand
    /\ tree[p].parent # 0
    /\ ParentOf(p).type = "ObjectPattern"
WithDefault(p) == tree[tree[p].value].type = "AssignmentPattern"

\* i is the property identifier of a member access.
MemberProperty(i) ==
    /\ HasParent(i)
    /\ ParentOf(i).type = "MemberExpression"
    /\ ParentOf(i).property = i
\* ... and that access is the left-hand side of an assignment.
AssignmentTarget(i) ==
    /\ MemberProperty(i)
    /\ ParentOf(i).parent # 0
    /\ tree[ParentOf(i).parent].type = "AssignmentExpression"
    /\ tree[ParentOf(i).parent].left = tree[i].parent
\* ... and that access is not an operand of an assignment at all.
PlainAccess(i) ==
    /\ MemberProperty(i)
    /\ ParentOf(i).parent # 0
    /\ tree[ParentOf(i).parent].type # "AssignmentExpression"

\* i is a reference to a name, not a binding of it.
IsUse(i) ==
    /\ tree[i].type = "Identifier"
    /\ HasParent(i)
    /\ \/ ParentOf(i).type = "VariableDeclarator" /\ ParentOf(i).init = i
       \/ ParentOf(i).type = "ExpressionStatement"
       \/ ParentOf(i).type = "MemberExpression" /\ ParentOf(i).object = i
       \/ ParentOf(i).type \in ALLOWED_PARENT_TYPES

\* i sits in a pair directly inside an object pattern and the pair has no key.
InKeylessEntry(i) ==
    /\ tree[i].type = "Identifier"
    /\ HasParent(i)
    /\ ParentOf(i).type \in {"Property", "AssignmentPattern"}
    /\ ParentOf(i).parent # 0
    /\ tree[ParentOf(i).parent].type = "ObjectPattern"
    /\ ~Has(ParentOf(i), "key")

----------------------------------------------------------------------------
(* Properties *)

\* C1: an identifier whose name matches the configured pattern gets no
\* diagnostic, whatever its parent and whatever the options.
C1_MatchingNameNeverFlagged ==
    \A i \in Nodes :
        (Has(tree[i], "name") /\ RegexpTest(pattern, tree[i].name)) => ~Flagged(i)

\* C1 witness: under ^[a-z]+$ a declared name that matches was walked and left
\* alone while a failing name of the same tree was flagged.
C1_Witness ==
    /\ inputPattern = LowerPattern
    /\ diagnostics # <<>>
    /\ \E i \in visited :
          /\ tree[i].name = Foo
          /\ ParentOf(i).type = "VariableDeclarator"
          /\ ParentOf(i).id = i
          /\ ~Flagged(i)

\* C2 (state part): a range carries exactly one diagnostic if a walked node of
\* that range made the listener call report, and none otherwise; the Set holds
\* exactly the stringified ranges of the diagnostics emitted so far.
C2_OncePerRange ==
    /\ \A i \in Nodes :
          Has(tree[i], "range") =>
             Cardinality(DiagnosticsAt(tree[i].range)) =
                IF \E j \in visited :
                      /\ tree[j].type \in Listeners
                      /\ tree[j].range = tree[i].range
                      /\ Identifier(j).calls # <<>>
                THEN 1 ELSE 0
    /\ \A k \in DOMAIN diagnostics :
          \E i \in Nodes : Has(tree[i], "range") /\ tree[i].range = diagnostics[k].range
    /\ reportedNodes = {RangeToString(diagnostics[k].range) : k \in DOMAIN diagnostics}

\* C2: the state part holds always, and while one traversal goes on the Set
\* only grows.
C2_DedupAndMonotone ==
    /\ []C2_OncePerRange
    /\ [][visited' # {} => reportedNodes \subseteq reportedNodes']_vars

\* C2 witness: two distinct walked nodes share a range and that range carries
\* its single diagnostic.
C2_Witness ==
    \E i \in visited : \E j \in visited :
        /\ i # j
        /\ tree[i].range = tree[j].range
        /\ Cardinality(DiagnosticsAt(tree[i].range)) = 1

\* C3 (as claimed): with onlyDeclarations no diagnostic is ever emitted for a
\* use of a name.
C3_NoUseFlagged ==
    onlyDeclarations => \A i \in Nodes : IsUse(i) => ~Flagged(i)

\* C4 (as claimed): with ignoreDestructuring a failing shorthand entry without
\* a default is not flagged and one with a default is flagged once the tree
\* has been walked.
C4_DefaultStillFlagged ==
    \A p \in Nodes :
        (ShorthandEntry(p) /\ ignoreDestructuring /\ NameFails(tree[p].key)) =>
            /\ ~WithDefault(p) => ~FlaggedRange(tree[tree[p].key].range)
            /\ (WithDefault(p) /\ TraversalDone) => FlaggedRange(tree[tree[p].key].range)

\* C4 (amended): with ignoreDestructuring no shorthand entry is flagged, with
\* or without a default; without ignoreDestructuring a failing shorthand entry
\* of either form is flagged once the tree has been walked.
C4_IgnoreDestructuringCoversDefault ==
    \A p \in Nodes :
        ShorthandEntry(p) =>
            /\ ignoreDestructuring => ~FlaggedRange(tree[tree[p].key].range)
            /\ (~ignoreDestructuring /\ NameFails(tree[p].key) /\ TraversalDone)
                  => FlaggedRange(tree[tree[p].key].range)

\* C4 witness: const { b_n = 1 } = obj walked to the end under
\* ignoreDestructuring and ^[a-z]+$.
C4_Witness ==
    /\ ignoreDestructuring
    /\ inputPattern = LowerPattern
    /\ TraversalDone
    /\ \E p \in Nodes : ShorthandEntry(p) /\ WithDefault(p) /\ NameFails(tree[p].key)

\* C5 (as claimed): without properties no identifier under a member access is
\* flagged; with properties every walked failing property identifier of a
\* member access is flagged.
C5_PropertyAlwaysFlagged ==
    /\ ~checkProperties =>
          \A i \in Nodes : (HasParent(i) /\ ParentOf(i).type = "MemberExpression")
                              => ~Flagged(i)
    /\ checkProperties =>
          \A i \in visited : (MemberProperty(i) /\ NameFails(i)) => Flagged(i)

\* C5 (amended): without properties no identifier under a member access is
\* flagged; with properties a walked failing property identifier is flagged
\* when its access is the left-hand side of an assignment, and when its access
\* is no operand of an assignment it is flagged only if the object is an
\* identifier of the same name.
C5_PropertyFlaggedAsAssignmentTarget ==
    /\ ~checkProperties =>
          \A i \in Nodes : (HasParent(i) /\ ParentOf(i).type = "MemberExpression")
                              => ~Flagged(i)
    /\ checkProperties =>
          \A i \in visited :
             /\ (AssignmentTarget(i) /\ NameFails(i)) => Flagged(i)
             /\ (PlainAccess(i) /\ Flagged(i)) =>
                   /\ tree[ParentOf(i).object].type = "Identifier"
                   /\ tree[ParentOf(i).object].name = tree[i].name

\* C5 witness: with properties and ^[a-z]+$ a failing assignment target
\* has been walked and flagged.
C5_Witness ==
    /\ checkProperties
    /\ inputPattern = LowerPattern
    /\ \E i \in visited :
          /\ AssignmentTarget(i)
          /\ NameFails(i)
          /\ tree[ParentOf(i).object].name # tree[i].name
          /\ Flagged(i)

\* C6 (as claimed): with classFields a walked failing class-field key is
\* flagged, with notMatchPrivate when it is private and notMatch otherwise;
\* without classFields no class-field key is flagged.
C6_PrivateFieldFlagged ==
    \A i \in Nodes :
        (HasParent(i) /\ ParentOf(i).type = "PropertyDefinition" /\ ParentOf(i).key = i) =>
            /\ (checkClassFields /\ Walked(i) /\ NameFails(i)) =>
                  \E k \in DOMAIN diagnostics :
                     /\ diagnostics[k].node = i
                     /\ diagnostics[k].messageId =
                           IF tree[i].type = "PrivateIdentifier" THEN "notMatchPrivate"
                           ELSE "notMatch"
            /\ ~checkClassFields => ~Flagged(i)

\* C7: an identifier whose immediate parent is a call or constructor
\* expression is never flagged, whatever the configuration.
C7_CallArgumentsNeverFlagged ==
    \A i \in Nodes :
        (HasParent(i) /\ ParentOf(i).type \in ALLOWED_PARENT_TYPES) => ~Flagged(i)

\* C7 witness: a failing name directly under a call or constructor expression
\* was walked with declarations-only off.
C7_Witness ==
    /\ inputPattern = LowerPattern
    /\ ~onlyDeclarations
    /\ \E i \in visited :
          /\ ParentOf(i).type \in ALLOWED_PARENT_TYPES
          /\ NameFails(i)

\* C8: with ignoreNamedImports nothing under a named specifier is flagged; a
\* walked failing local name of a default or namespace import is flagged
\* either way; without ignoreNamedImports so is the walked failing local name
\* of a named specifier.
C8_NamedImportsIgnored ==
    /\ ignoreNamedImports =>
          \A i \in Nodes : (HasParent(i) /\ ParentOf(i).type = "ImportSpecifier")
                              => ~Flagged(i)
    /\ \A i \in visited :
          (/\ ParentOf(i).type \in IMPORT_TYPES
           /\ ParentOf(i).local = i
           /\ NameFails(i)
           /\ (ParentOf(i).type = "ImportSpecifier" => ~ignoreNamedImports))
             => FlaggedRange(tree[i].range)

\* C8 witness: under ignoreNamedImports a failing named import was walked.
C8_Witness ==
    /\ ignoreNamedImports
    /\ inputPattern = LowerPattern
    /\ \E i \in visited :
          /\ ParentOf(i).type = "ImportSpecifier"
          /\ ParentOf(i).local = i
          /\ NameFails(i)

\* C9 (as claimed): a diagnostic in an import specifier is always placed on
\* the specifier's local binding, never on the imported name.
C9_OnlyLocalReported ==
    \A k \in DOMAIN diagnostics :
        LET p == ParentOf(diagnostics[k].node)
        IN  p.type \in IMPORT_TYPES => diagnostics[k].range = tree[p.local].range

\* C10: walking an identifier whose pair sits directly inside an object
\* pattern and has no key ends in a thrown error, with no diagnostic emitted
\* and the Set unchanged.
C10_KeylessEntryThrows ==
    [][\A i \in Nodes :
          (Walks(i) /\ InKeylessEntry(i)) =>
             /\ status' = "failed"
             /\ diagnostics' = diagnostics
             /\ reportedNodes' = reportedNodes]_vars

\* C10 witness: the listener threw on a failing name that would otherwise be
\* checked.
C10_Witness ==
    /\ status = "failed"
    /\ inputPattern = LowerPattern
    /\ ~ignoreDestructuring
    /\ \E i \in visited : InKeylessEntry(i) /\ NameFails(i)

====
